---- MODULE Spec2Model ----
(***************************************************************************)
(* Model of src/lastModifiedListener.js: the watermark-driven poller that  *)
(* discovers the connection indices, reads each connection's sync configs, *)
(* fetches the change-log rows newer than the config's updatedAt, writes   *)
(* the new updatedAt, transforms the rows and pushes them to the sink.     *)
(*                                                                         *)
(* Times are JavaScript Date values (integral milliseconds, epoch = 0).    *)
(* The change-log rows carry change_time values as the pg driver hands     *)
(* them to the code, i.e. already as Date values.                          *)
(***************************************************************************)
EXTENDS Integers, Sequences, FiniteSets, TLC

VARIABLES
    catalog,    \* esClient.cat.indices: the index names of the metadata store
    store,      \* metadata store: index name -> (document id -> _source)
    changelog,  \* <table>_changelog: table name -> sequence of appended rows
    sink,       \* documents accepted by the sink: set of <<tenant index, config key, row n>>
    inv,        \* one record of locals per invocation of lastModifiedListener
    fetched,    \* history: <<config key, row n>> ever returned by a fetch
    quiet,      \* history: config key -> "queried": no row appended to its change-log since
                \* its last query; "written": nor since the query of its last fetch whose
                \* checkpoint write succeeded; "no" otherwise
    owed        \* history: config key -> the rows of its last fetch when the checkpoint
                \* write of that fetch failed

vars == <<catalog, store, changelog, sink, inv, fetched, quiet, owed>>

----------------------------------------------------------------------------
(* Bounds of the model *)

MaxRows == 2    \* rows appended to the change-logs over a behaviour
MaxTime == 2    \* change_time values are 1..MaxTime
MaxLen == 2     \* rows handed to processAndIndexData when it is checked on its own

----------------------------------------------------------------------------
(* Names *)

Prefix == "datasource_postgresql_connection_"
IndexA == <<Prefix, "acme">>
IndexB == <<Prefix, "beta">>
Other  == <<"tenant_", "acme">>

Undefined == [kind |-> "undefined", t |-> 0]
NaN == -1

\* String.prototype.toLowerCase on the coid values of the model
ToLowerCase(s) ==
    CASE s = "ACME" -> "acme"
      [] s = "Beta" -> "beta"
      [] OTHER -> s

\* String.prototype.startsWith(prefix) on an index name
StartsWith(name, prefix) == name[1] = prefix

\* Date.prototype.toISOString
ToISOString(t) == [kind |-> "iso", t |-> t]

\* new Date(config.source.updatedAt || 0)
LastIndexedTime(updatedAt) ==
    CASE updatedAt.kind = "undefined" -> 0
      [] updatedAt.kind = "iso" -> updatedAt.t
      [] OTHER -> NaN

\* `datasource_postgresql_connection_${config.source.coid.toLowerCase()}`
CheckpointIndex(config) == <<Prefix, ToLowerCase(config.source.coid)>>

\* `tenant_${config.source.coid.toLowerCase()}`
TenantIndex(config) == <<"tenant_", ToLowerCase(config.source.coid)>>

----------------------------------------------------------------------------
(* The metadata store and the change-log source *)

\* the change-logs rows are appended to, and what processFieldContent makes of a row's value
Tables == {"orders"}
Contents == {"text", "empty", "throws"}

\* _source of a well-formed SyncConfig document that was never synced
Source(coid, table) ==
    [defined |-> TRUE, coid |-> coid, table_name |-> table, updatedAt |-> Undefined]

\* a document without the source object
NoSource ==
    [defined |-> FALSE, coid |-> "", table_name |-> "", updatedAt |-> Undefined]

\* the SyncConfig documents of the model; each coid names its own connection
Docs ==
    [i \in {IndexA, IndexB} |->
        IF i = IndexA
        THEN [d \in {"c1", "c2"} |-> IF d = "c1" THEN Source("ACME", "orders") ELSE Source("ACME", "items")]
        ELSE [d \in {"c1"} |-> Source("Beta", "users")]]

ConfigKeys == {<<i, d>> : i \in {IndexA, IndexB}, d \in {"c1", "c2"}} \ {<<IndexB, "c2">>}

\* result.hits.hits of a match_all search, in document-id order
Hits(idx) ==
    LET ids == IF DOMAIN store[idx] = {"c1", "c2"} THEN <<"c1", "c2">> ELSE <<"c1">>
    IN  [k \in 1..Len(ids) |-> [id |-> ids[k], source |-> store[idx][ids[k]]]]

\* result.filter(...).map(...) of fetchIndicesWithPrefix
RECURSIVE FilterPrefix(_, _)
FilterPrefix(names, prefix) ==
    IF names = <<>> THEN <<>>
    ELSE IF StartsWith(Head(names), prefix)
         THEN <<Head(names)>> \o FilterPrefix(Tail(names), prefix)
         ELSE FilterPrefix(Tail(names), prefix)

\* the comparison of the WHERE clause written as >=
AfterCursorInclusive(t, cursor) == t >= cursor

\* WHERE change_time > $1
AfterCursor(t, cursor) == t > cursor

\* ORDER BY change_time ASC
OrderedAsc(rows) ==
    \A k \in 1..(Len(rows) - 1) : rows[k].change_time <= rows[k + 1].change_time

\* the row of the change-log the query returns for entry n
Row(log, n) ==
    [n |-> n, row_id |-> n, change_time |-> log[n].change_time,
     content |-> log[n].content, action_type |-> log[n].action_type]

RECURSIVE Perms(_)
Perms(S) ==
    IF S = {} THEN {<<>>}
    ELSE UNION {{<<x>> \o s : s \in Perms(S \ {x})} : x \in S}

\* a query with neither the WHERE nor the ORDER BY clause: the whole change-log
\* in insertion order
QueryResultsWholeLog(log, cursor) == {[k \in 1..Len(log) |-> Row(log, k)]}

\* the possible results of the query of fetchUpdatedRows: the rows newer than
\* the cursor in ascending change_time order (rows of equal time in any order)
QueryResults(log, cursor) ==
    LET match == {n \in 1..Len(log) : AfterCursor(log[n].change_time, cursor)}
        seqs  == {[k \in 1..Len(s) |-> Row(log, s[k])] : s \in Perms(match)}
    IN  {rows \in seqs : OrderedAsc(rows)}

\* result.rows[0].change_time: the first row taken for the latest one
FirstChangeTime(rows) == rows[1].change_time

\* result.rows[result.rows.length - 1].change_time
LatestChangeTime(rows) == rows[Len(rows)].change_time

\* a document builder that gives DELETE an action of its own
DocumentWithDelete(row) ==
    [action |-> CASE row.action_type = "INSERT" -> "upload"
                  [] row.action_type = "DELETE" -> "delete"
                  [] OTHER -> "mergeOrUpload",
     id |-> ToString(row.row_id), n |-> row.n]

\* the document pushed for a row
Document(row) ==
    [action |-> IF row.action_type = "INSERT" THEN "upload" ELSE "mergeOrUpload",
     id |-> ToString(row.row_id), n |-> row.n]

\* the row loop without its try/catch: the first throwing row ends the loop
RECURSIVE ProcessRowsStopAtThrow(_)
ProcessRowsStopAtThrow(rows) ==
    IF rows = <<>> \/ Head(rows).content = "throws" THEN <<>>
    ELSE IF Head(rows).content = "text"
         THEN <<Document(Head(rows))>> \o ProcessRowsStopAtThrow(Tail(rows))
         ELSE ProcessRowsStopAtThrow(Tail(rows))

\* the row loop without if (content): a document for empty content as well
RECURSIVE ProcessRowsKeepEmpty(_)
ProcessRowsKeepEmpty(rows) ==
    IF rows = <<>> THEN <<>>
    ELSE IF Head(rows).content # "throws"
         THEN <<Document(Head(rows))>> \o ProcessRowsKeepEmpty(Tail(rows))
         ELSE ProcessRowsKeepEmpty(Tail(rows))

\* the documents array built by the loop of processAndIndexData
RECURSIVE ProcessRows(_)
ProcessRows(rows) ==
    IF rows = <<>> THEN <<>>
    ELSE IF Head(rows).content = "text"
         THEN <<Document(Head(rows))>> \o ProcessRows(Tail(rows))
         ELSE ProcessRows(Tail(rows))

RECURSIVE TotalRows(_, _)
TotalRows(log, T) ==
    IF T = {} THEN 0
    ELSE LET t == CHOOSE x \in T : TRUE IN Len(log[t]) + TotalRows(log, T \ {t})

----------------------------------------------------------------------------
(* Locals of one invocation *)

\* clients: sessions checked out of a pool and not released; pools: pools made by
\* new Pool(...) and not ended
Fresh ==
    [pc |-> "idle", indices |-> <<>>, ii |-> 0, indexDetails |-> <<>>, ci |-> 0,
     cursor |-> 0, rows |-> <<>>, documents |-> <<>>,
     fetch |-> "none", ckpt |-> "none", pub |-> "none", second |-> FALSE,
     queried |-> FALSE, pubCalls |-> 0,
     discoverFailed |-> FALSE, readTried |-> {}, configsRead |-> {},
     fetchTried |-> {}, pools |-> 0, clients |-> 0]

\* the locals at the top of the body of the config loop (and once the loop is left)
Iteration(L, k) ==
    [L EXCEPT !.ci = k, !.cursor = 0, !.rows = <<>>, !.documents = <<>>,
              !.fetch = "none", !.ckpt = "none", !.pub = "none", !.second = FALSE,
              !.queried = FALSE, !.pubCalls = 0]

Config(L) == L.indexDetails[L.ci]
IndexName(L) == L.indices[L.ii]
Key(L) == <<IndexName(L), Config(L).id>>

Init ==
    /\ catalog \in {<<Other>>, <<IndexA, Other, IndexB>>}
    /\ store \in {[i \in {catalog[k] : k \in {j \in 1..Len(catalog) : StartsWith(catalog[j], Prefix)}} |->
                     [d \in DOMAIN Docs[i] |-> IF <<i, d>> \in bad THEN NoSource ELSE Docs[i][d]]]
                  : bad \in SUBSET ConfigKeys}
    /\ changelog = [t \in {"orders", "items", "users"} |-> <<>>]
    /\ sink = {}
    /\ inv = [p \in {1} |-> Fresh]
    /\ fetched = {}
    /\ quiet = [k \in ConfigKeys |-> "no"]
    /\ owed = [k \in ConfigKeys |-> {}]

----------------------------------------------------------------------------
(* Error handlers and loop control *)

\* finally { client.release() }
Release(L) == [L EXCEPT !.clients = @ - 1]

\* the index loop without its try/catch: the error leaves processIndices and is
\* caught by lastModifiedListener
OnIndexErrorAbort(L) == [Iteration(L, L.ci) EXCEPT !.pc = "returned"]

\* catch (error) of the index loop of processIndices: logs, next index
OnIndexError(L) == [Iteration(L, L.ci) EXCEPT !.pc = "idxDone"]

\* catch (error) of the config loop of processIndices: the handler reads
\* config.source.table_name, so it throws itself when source is undefined
OnConfigError(L) ==
    IF Config(L).source.defined THEN [L EXCEPT !.pc = "cfgDone"] ELSE OnIndexError(L)

\* a catch (error) of lastModifiedListener that rethrows
OnListenerErrorRethrow(L) == [L EXCEPT !.pc = "threw"]

\* catch (error) of lastModifiedListener: logs and returns
OnListenerError(L) == [L EXCEPT !.pc = "returned"]

\* if (result.rows.length > 0) of fetchUpdatedRows
NeedsCheckpoint(rows) == Len(rows) > 0

\* if (updatedRows.length > 0) of processIndices
HasUpdatedRows(rows) == Len(rows) > 0

\* a transformer that pushes whatever the number of documents
AlwaysPush(documents) == TRUE

\* if (documents.length > 0) of processAndIndexData
HasDocuments(documents) == Len(documents) > 0

----------------------------------------------------------------------------
(* Steps of an invocation, one per awaited call *)

\* the scheduler invokes lastModifiedListener (invocations of p run one after another)
Start(p) ==
    /\ inv[p].pc \in {"idle", "returned", "threw", "crashed"}
    /\ inv' = [inv EXCEPT ![p] = [Fresh EXCEPT !.pc = "discover"]]
    /\ UNCHANGED <<catalog, store, changelog, sink, fetched, quiet, owed>>

\* a discovery whose failure is swallowed: the cycle goes on with the indices of
\* the catalog
DiscoverPartial(p) ==
    LET L == inv[p]
        indices == FilterPrefix(catalog, Prefix)
    IN
    /\ L.pc = "discover"
    /\ \E ok \in BOOLEAN :
         inv' = [inv EXCEPT ![p] =
            IF Len(indices) > 0
            THEN [L EXCEPT !.indices = indices, !.ii = 1, !.pc = "read", !.discoverFailed = ~ok]
            ELSE [L EXCEPT !.indices = indices, !.pc = "returned", !.discoverFailed = ~ok]]
    /\ UNCHANGED <<catalog, store, changelog, sink, fetched, quiet, owed>>

\* await fetchIndicesWithPrefix(...), then the branch on indices.length
Discover(p) ==
    LET L == inv[p] IN
    /\ L.pc = "discover"
    /\ \E ok \in BOOLEAN :
         inv' = [inv EXCEPT ![p] =
            IF ok
            THEN LET indices == FilterPrefix(catalog, Prefix)
                 IN  IF Len(indices) > 0
                     THEN [L EXCEPT !.indices = indices, !.ii = 1, !.pc = "read"]
                     ELSE [L EXCEPT !.indices = indices, !.pc = "returned"]
            ELSE OnListenerError([L EXCEPT !.discoverFailed = TRUE])]
    /\ UNCHANGED <<catalog, store, changelog, sink, fetched, quiet, owed>>

\* await fetchIndexDetails(indexName)
ReadConfigs(p) ==
    LET L == inv[p]
        T == [L EXCEPT !.readTried = @ \cup {IndexName(L)}]
    IN
    /\ L.pc = "read"
    /\ \E ok \in BOOLEAN :
         inv' = [inv EXCEPT ![p] =
            IF ok
            THEN LET hits == Hits(IndexName(L))
                     R == [T EXCEPT !.indexDetails = hits,
                                    !.configsRead = @ \cup {<<IndexName(L), hits[k].id>> : k \in 1..Len(hits)}]
                 IN  IF Len(hits) > 0
                     THEN [Iteration(R, 1) EXCEPT !.pc = "connect"]
                     ELSE [R EXCEPT !.pc = "idxDone"]
            ELSE OnIndexError(T)]
    /\ UNCHANGED <<catalog, store, changelog, sink, fetched, quiet, owed>>

\* fetchUpdatedRows up to await pool.connect()
Connect(p) ==
    LET L == inv[p]
        T == [L EXCEPT !.fetchTried = @ \cup {Key(L)}]
    IN
    /\ L.pc = "connect"
    /\ IF ~Config(L).source.defined
       THEN \* TypeError reading config.source.host
            inv' = [inv EXCEPT ![p] = OnConfigError([T EXCEPT !.fetch = "failed"])]
       ELSE \E ok \in BOOLEAN :
            inv' = [inv EXCEPT ![p] =
               IF ok
               THEN [T EXCEPT !.pools = @ + 1, !.clients = @ + 1, !.pc = "query"]
               ELSE OnConfigError([T EXCEPT !.pools = @ + 1, !.fetch = "failed"])]
    /\ UNCHANGED <<catalog, store, changelog, sink, fetched, quiet, owed>>

\* a fetch that writes the checkpoint whatever the number of rows: the cursor
\* itself when the query returned none
QueryAlwaysCheckpoint(p) ==
    LET L == inv[p]
        cursor == LastIndexedTime(Config(L).source.updatedAt)
        log == changelog[Config(L).source.table_name]
        Q == [L EXCEPT !.second = (quiet[Key(L)] = "written"), !.queried = TRUE]
        idx == CheckpointIndex(Config(L))
    IN
    /\ L.pc = "query"
    /\ cursor # NaN
    /\ idx \in DOMAIN store
    /\ Config(L).id \in DOMAIN store[idx]
    /\ \E rows \in QueryResults(log, cursor) :
         /\ inv' = [inv EXCEPT ![p] =
              IF Len(rows) > 0
              THEN [Q EXCEPT !.cursor = cursor, !.rows = rows, !.pc = "checkpoint"]
              ELSE Release([Q EXCEPT !.cursor = cursor, !.rows = rows, !.fetch = "ok",
                                     !.ckpt = "ok", !.pc = "cfgDone"])]
         /\ store' = IF Len(rows) > 0 THEN store
                     ELSE [store EXCEPT ![idx][Config(L).id].updatedAt = ToISOString(cursor)]
         /\ fetched' = fetched \cup {<<Key(L), rows[k].n>> : k \in 1..Len(rows)}
         /\ quiet' = [quiet EXCEPT ![Key(L)] = IF @ = "written" THEN @ ELSE "queried"]
    /\ UNCHANGED <<catalog, changelog, sink, owed>>

\* await client.query(query, [lastIndexedTime])
Query(p) ==
    LET L == inv[p]
        cursor == LastIndexedTime(Config(L).source.updatedAt)
        log == changelog[Config(L).source.table_name]
        Q == [L EXCEPT !.second = (quiet[Key(L)] = "written"), !.queried = TRUE]
    IN
    /\ L.pc = "query"
    /\ \/ /\ cursor # NaN
          /\ \E rows \in QueryResults(log, cursor) :
               /\ inv' = [inv EXCEPT ![p] =
                    IF NeedsCheckpoint(rows)
                    THEN [Q EXCEPT !.cursor = cursor, !.rows = rows, !.pc = "checkpoint"]
                    ELSE LET R == Release([Q EXCEPT !.cursor = cursor, !.rows = rows, !.fetch = "ok"])
                         IN  IF HasUpdatedRows(rows)
                             THEN [R EXCEPT !.pc = "transform"]
                             ELSE [R EXCEPT !.pc = "cfgDone"]]
               /\ fetched' = fetched \cup {<<Key(L), rows[k].n>> : k \in 1..Len(rows)}
               /\ quiet' = [quiet EXCEPT ![Key(L)] = IF @ = "written" THEN @ ELSE "queried"]
       \/ /\ inv' = [inv EXCEPT ![p] =
                OnConfigError(Release([L EXCEPT !.cursor = cursor, !.queried = TRUE,
                                                 !.fetch = "failed"]))]
          /\ UNCHANGED <<fetched, quiet>>
    /\ UNCHANGED <<catalog, store, changelog, sink, owed>>

\* a checkpoint write that has changed the document when it reports its failure
CheckpointFailsAfterWrite(p) ==
    LET L == inv[p]
        idx == CheckpointIndex(Config(L))
        id == Config(L).id
        updatedAt == ToISOString(LatestChangeTime(L.rows))
    IN
    /\ L.pc = "checkpoint"
    /\ idx \in DOMAIN store
    /\ id \in DOMAIN store[idx]
    /\ store' = [store EXCEPT ![idx][id].updatedAt = updatedAt]
    /\ \/ /\ quiet' = [quiet EXCEPT ![Key(L)] = IF @ = "no" THEN "no" ELSE "written"]
          /\ owed' = [owed EXCEPT ![Key(L)] = {}]
          /\ inv' = [inv EXCEPT ![p] =
                LET R == Release([L EXCEPT !.ckpt = "ok", !.fetch = "ok"])
                IN  IF HasUpdatedRows(L.rows)
                    THEN [R EXCEPT !.pc = "transform"]
                    ELSE [R EXCEPT !.pc = "cfgDone"]]
       \/ /\ inv' = [inv EXCEPT ![p] =
                OnConfigError(Release([L EXCEPT !.ckpt = "failed", !.fetch = "failed"]))]
          /\ owed' = [owed EXCEPT ![Key(L)] = {L.rows[k].n : k \in 1..Len(L.rows)}]
          /\ UNCHANGED quiet
    /\ UNCHANGED <<catalog, changelog, sink, fetched>>

\* await updateTimeInElasticsearch(...), then return result.rows
Checkpoint(p) ==
    LET L == inv[p]
        idx == CheckpointIndex(Config(L))
        id == Config(L).id
        updatedAt == ToISOString(LatestChangeTime(L.rows))
    IN
    /\ L.pc = "checkpoint"
    /\ \/ /\ idx \in DOMAIN store
          /\ id \in DOMAIN store[idx]
          /\ store' = [store EXCEPT ![idx][id].updatedAt = updatedAt]
          /\ quiet' = [quiet EXCEPT ![Key(L)] = IF @ = "no" THEN "no" ELSE "written"]
          /\ owed' = [owed EXCEPT ![Key(L)] = {}]
          /\ inv' = [inv EXCEPT ![p] =
                LET R == Release([L EXCEPT !.ckpt = "ok", !.fetch = "ok"])
                IN  IF HasUpdatedRows(L.rows)
                    THEN [R EXCEPT !.pc = "transform"]
                    ELSE [R EXCEPT !.pc = "cfgDone"]]
       \/ /\ inv' = [inv EXCEPT ![p] =
                OnConfigError(Release([L EXCEPT !.ckpt = "failed", !.fetch = "failed"]))]
          /\ owed' = [owed EXCEPT ![Key(L)] = {L.rows[k].n : k \in 1..Len(L.rows)}]
          /\ UNCHANGED <<store, quiet>>
    /\ UNCHANGED <<catalog, changelog, sink, fetched>>

\* the row loop of processAndIndexData
Transform(p) ==
    LET L == inv[p]
        documents == ProcessRows(L.rows)
    IN
    /\ L.pc = "transform"
    /\ inv' = [inv EXCEPT ![p] =
          IF HasDocuments(documents)
          THEN [L EXCEPT !.documents = documents, !.pc = "publish"]
          ELSE [L EXCEPT !.documents = documents, !.pc = "cfgDone"]]
    /\ UNCHANGED <<catalog, store, changelog, sink, fetched, quiet, owed>>

\* await pushToAzureSearch(documents, indexName)
Publish(p) ==
    LET L == inv[p] IN
    /\ L.pc = "publish"
    /\ \/ /\ sink' = sink \cup {<<TenantIndex(Config(L)), Key(L), L.documents[k].n>> : k \in 1..Len(L.documents)}
          /\ inv' = [inv EXCEPT ![p] = [L EXCEPT !.pub = "ok", !.pubCalls = @ + 1, !.pc = "cfgDone"]]
       \/ /\ inv' = [inv EXCEPT ![p] = OnConfigError([L EXCEPT !.pub = "failed", !.pubCalls = @ + 1])]
          /\ UNCHANGED sink
    /\ UNCHANGED <<catalog, store, changelog, fetched, quiet, owed>>

\* the config loop of processIndices moves on
NextConfig(p) ==
    LET L == inv[p] IN
    /\ L.pc = "cfgDone"
    /\ inv' = [inv EXCEPT ![p] =
          IF L.ci < Len(L.indexDetails)
          THEN [Iteration(L, L.ci + 1) EXCEPT !.pc = "connect"]
          ELSE [Iteration(L, L.ci) EXCEPT !.pc = "idxDone"]]
    /\ UNCHANGED <<catalog, store, changelog, sink, fetched, quiet, owed>>

\* the index loop of processIndices moves on; after the last index the listener returns
NextIndex(p) ==
    LET L == inv[p] IN
    /\ L.pc = "idxDone"
    /\ inv' = [inv EXCEPT ![p] =
          IF L.ii < Len(L.indices)
          THEN [L EXCEPT !.ii = @ + 1, !.pc = "read"]
          ELSE [L EXCEPT !.pc = "returned"]]
    /\ UNCHANGED <<catalog, store, changelog, sink, fetched, quiet, owed>>

\* the process dies between two steps of an invocation
Crash(p) ==
    /\ inv[p].pc \notin {"idle", "returned", "threw", "crashed"}
    /\ inv' = [inv EXCEPT ![p] = [Fresh EXCEPT !.pc = "crashed"]]
    /\ UNCHANGED <<catalog, store, changelog, sink, fetched, quiet, owed>>

\* the source database appends a row to a change-log
AppendRow ==
    /\ TotalRows(changelog, Tables) < MaxRows
    /\ \E t \in Tables, time \in 1..MaxTime, content \in Contents :
         /\ changelog' = [changelog EXCEPT ![t] =
               Append(@, [change_time |-> time, content |-> content, action_type |-> "INSERT"])]
         /\ quiet' = [k \in ConfigKeys |->
               IF Docs[k[1]][k[2]].table_name = t THEN "no" ELSE quiet[k]]
    /\ UNCHANGED <<catalog, store, sink, inv, fetched, owed>>

Next ==
    \/ \E p \in DOMAIN inv : Start(p)
    \/ \E p \in DOMAIN inv : Discover(p)
    \/ \E p \in DOMAIN inv : ReadConfigs(p)
    \/ \E p \in DOMAIN inv : Connect(p)
    \/ \E p \in DOMAIN inv : Query(p)
    \/ \E p \in DOMAIN inv : Checkpoint(p)
    \/ \E p \in DOMAIN inv : Transform(p)
    \/ \E p \in DOMAIN inv : Publish(p)
    \/ \E p \in DOMAIN inv : NextConfig(p)
    \/ \E p \in DOMAIN inv : NextIndex(p)
    \/ \E p \in DOMAIN inv : Crash(p)
    \/ AppendRow

Spec == Init /\ [][Next]_vars

----------------------------------------------------------------------------
(* processAndIndexData on its own, on any short sequence of rows *)

ActionTypes == {"INSERT", "UPDATE", "DELETE", "MERGE"}
RowIds == {7, 42}

\* the rows a caller can hand to processAndIndexData
RowSeqs ==
    UNION {[1..len -> [row_id : RowIds, content : Contents, action_type : ActionTypes]]
           : len \in 0..MaxLen}

InitTransform ==
    /\ catalog = <<>>
    /\ store = <<>>
    /\ changelog = [t \in {"orders", "items", "users"} |-> <<>>]
    /\ sink = {}
    /\ fetched = {}
    /\ quiet = [k \in ConfigKeys |-> "no"]
    /\ owed = [k \in ConfigKeys |-> {}]
    /\ \E input \in RowSeqs :
         inv = [p \in {1} |->
                  [Fresh EXCEPT !.pc = "transform",
                                !.rows = [k \in 1..Len(input) |->
                                             [n |-> k, row_id |-> input[k].row_id, change_time |-> k,
                                              content |-> input[k].content,
                                              action_type |-> input[k].action_type]]]]

NextTransform == \E p \in DOMAIN inv : Transform(p)

SpecTransform == InitTransform /\ [][NextTransform]_vars

\* a stored updatedAt that is a string new Date() cannot parse
Unparseable == [kind |-> "string", t |-> 0]

\* the documents of the metadata store as whoever registers a config can have
\* written them: the coid of c1 of the connection acme names any connection of
\* the catalog and its updatedAt is absent, a timestamp or any other string
InitAnyConfig ==
    /\ catalog = <<IndexA, Other, IndexB>>
    /\ store \in {[i \in {IndexA, IndexB} |->
                     [d \in DOMAIN Docs[i] |->
                        IF <<i, d>> = <<IndexA, "c1">>
                        THEN [Docs[i][d] EXCEPT !.coid = coid, !.updatedAt = updatedAt]
                        ELSE Docs[i][d]]]
                  : coid \in {"ACME", "Beta"},
                    updatedAt \in {Undefined, ToISOString(1), Unparseable}}
    /\ changelog = [t \in {"orders", "items", "users"} |-> <<>>]
    /\ sink = {}
    /\ inv = [p \in {1} |-> Fresh]
    /\ fetched = {}
    /\ quiet = [k \in ConfigKeys |-> "no"]
    /\ owed = [k \in ConfigKeys |-> {}]

SpecAnyConfig == InitAnyConfig /\ [][Next]_vars

\* two invocations of lastModifiedListener whose awaited steps interleave, on
\* the connection acme with its well-formed configs
InitOverlap ==
    /\ catalog = <<IndexA>>
    /\ store = [i \in {IndexA} |-> Docs[i]]
    /\ changelog = [t \in {"orders", "items", "users"} |-> <<>>]
    /\ sink = {}
    /\ inv = [p \in {1, 2} |-> Fresh]
    /\ fetched = {}
    /\ quiet = [k \in ConfigKeys |-> "no"]
    /\ owed = [k \in ConfigKeys |-> {}]

SpecOverlap == InitOverlap /\ [][Next]_vars

----------------------------------------------------------------------------
(* Properties *)

\* the updatedAt stored for a config
Stored(key) == store[key[1]][key[2]].updatedAt

Resting(L) == L.pc \in {"idle", "returned", "threw", "crashed"}

\* C1: a checkpoint write for a config is made only after the publish of that
\* cycle's documents for that config has succeeded.
C1_CheckpointAfterPublish ==
    \A p \in DOMAIN inv : inv[p].ckpt # "none" => inv[p].pub = "ok"

\* C2: at-least-once delivery: no fetched row whose transformation gives
\* non-empty content is at or before the stored watermark of its config unless
\* it was part of a successful publish (stated here for the states in which no
\* invocation is running, where it fails as well).
C2_AtLeastOnce ==
    (\A p \in DOMAIN inv : Resting(inv[p])) =>
        \A f \in fetched :
            LET key == f[1]
                row == changelog[Docs[key[1]][key[2]].table_name][f[2]]
            IN  (/\ row.content = "text"
                 /\ Stored(key).kind = "iso"
                 /\ row.change_time <= Stored(key).t)
                => \E d \in sink : d[2] = key /\ d[3] = f[2]

\* C3: if publish fails for a config, the watermark store received no write for
\* that config in the cycle and the stored updatedAt is the one the cycle read.
C3_NoWriteOnPublishFailure ==
    \A p \in DOMAIN inv :
        (inv[p].pc = "cfgDone" /\ inv[p].pub = "failed") =>
            /\ inv[p].ckpt = "none"
            /\ Stored(Key(inv[p])) = Config(inv[p]).source.updatedAt

\* C4: across invocations run one after another, with stage failures and with
\* rows appended in any change_time order, a stored updatedAt never decreases,
\* and it changes only in the checkpoint step of a fetch for that very config
\* whose query returned rows, to the change_time of one of those rows.
C4_WatermarkMonotone ==
    [][\A i \in DOMAIN store : \A d \in DOMAIN store[i] :
         store'[i][d] # store[i][d] =>
            /\ store'[i][d].updatedAt.kind = "iso"
            /\ store'[i][d].updatedAt.t >= LastIndexedTime(store[i][d].updatedAt)
            /\ \E p \in DOMAIN inv :
                 /\ inv[p].pc = "checkpoint"
                 /\ Key(inv[p]) = <<i, d>>
                 /\ \E k \in 1..Len(inv[p].rows) :
                      inv[p].rows[k].change_time = store'[i][d].updatedAt.t]_vars

\* a fetch has run with a stored watermark in place while the change-log holds
\* a row appended after, and older than, the row the watermark came from
C4_Witness ==
    \E p \in DOMAIN inv :
        /\ inv[p].pc = "cfgDone" /\ inv[p].fetch = "ok" /\ inv[p].cursor >= 1
        /\ Stored(Key(inv[p])).kind = "iso"
        /\ LET log == changelog[Config(inv[p]).source.table_name]
           IN  \E m, n \in 1..Len(log) :
                 /\ m < n
                 /\ log[n].change_time < log[m].change_time
                 /\ log[m].change_time = Stored(Key(inv[p])).t

\* C5: a fetch that returned at least one row returned them in non-decreasing
\* change_time order, and the watermark it writes is the change_time of the last
\* row, which is the greatest of the rows and greater than the cursor used.
C5_WatermarkIsLastRow ==
    \A p \in DOMAIN inv :
        LET L == inv[p]
            last == L.rows[Len(L.rows)].change_time
        IN  L.rows # <<>> =>
              /\ \A j, k \in 1..Len(L.rows) :
                    j <= k => L.rows[j].change_time <= L.rows[k].change_time
              /\ \A k \in 1..Len(L.rows) : L.rows[k].change_time <= last
              /\ last > L.cursor
              /\ (L.pc = "transform" /\ L.ckpt = "ok") =>
                    Stored(Key(L)) = [kind |-> "iso", t |-> last]

\* a checkpoint was written for a fetch of two rows of different change_time
C5_Witness ==
    \E p \in DOMAIN inv :
        /\ inv[p].pc = "transform" /\ inv[p].ckpt = "ok"
        /\ Len(inv[p].rows) = 2
        /\ inv[p].rows[1].change_time < inv[p].rows[2].change_time

\* C6: when the fetch for a config returns zero rows, that iteration builds no
\* document, makes no publish call and no checkpoint write, and the stored
\* updatedAt is still the one that was read.
C6_EmptyFetchIsNoOp ==
    \A p \in DOMAIN inv :
        LET L == inv[p]
        IN  (L.pc = "cfgDone" /\ L.fetch = "ok" /\ L.rows = <<>>) =>
              /\ L.documents = <<>>
              /\ L.pub = "none"
              /\ L.ckpt = "none"
              /\ Stored(Key(L)) = Config(L).source.updatedAt

\* a fetch returned zero rows from a change-log whose rows are all at or before
\* the cursor
C6_Witness ==
    \E p \in DOMAIN inv :
        /\ inv[p].pc = "cfgDone" /\ inv[p].fetch = "ok" /\ inv[p].rows = <<>>
        /\ inv[p].cursor >= 1
        /\ LET log == changelog[Config(inv[p]).source.table_name]
           IN  log # <<>> /\ \A n \in 1..Len(log) : log[n].change_time <= inv[p].cursor

\* C7: a fetch made after a successful checkpoint write of the same config, on
\* the config as stored by that write and with no row appended since the query
\* of the fetch that wrote it, returns no row and makes no checkpoint write.
C7_SecondFetchEmpty ==
    \A p \in DOMAIN inv :
        LET L == inv[p]
        IN  L.second =>
              /\ L.rows = <<>>
              /\ L.ckpt = "none"
              /\ Stored(Key(L)) = Config(L).source.updatedAt

\* the second fetch has run: after a checkpoint write and with no row appended
C7_Witness ==
    \E p \in DOMAIN inv :
        /\ inv[p].pc = "cfgDone" /\ inv[p].fetch = "ok" /\ inv[p].second
        /\ inv[p].cursor >= 1
        /\ changelog[Config(inv[p]).source.table_name] # <<>>

\* C8: every config returned by a connection's config read has its fetch
\* attempted in that cycle, whatever fails for the configs before it.
C8_EveryConfigFetched ==
    \A p \in DOMAIN inv :
        inv[p].pc = "returned" => inv[p].configsRead \subseteq inv[p].fetchTried

\* the connection indices of the catalog
Discovered == {catalog[k] : k \in {j \in 1..Len(catalog) : catalog[j][1] = Prefix}}

\* C9: when discovery succeeded, every discovered connection has its configs
\* read in the cycle, and each connection whose read succeeded has its config
\* loop entered, whichever connection's read failed.
C9_ConnectionIsolation ==
    \A p \in DOMAIN inv :
        (inv[p].pc = "returned" /\ ~inv[p].discoverFailed) =>
            \A i \in Discovered :
                /\ i \in inv[p].readTried
                /\ <<i, "c1">> \in inv[p].configsRead => <<i, "c1">> \in inv[p].fetchTried

\* the read of the first connection failed and the second was read and processed
C9_Witness ==
    \E p \in DOMAIN inv :
        /\ inv[p].pc = "returned" /\ ~inv[p].discoverFailed
        /\ IndexA \in inv[p].readTried
        /\ <<IndexA, "c1">> \notin inv[p].configsRead
        /\ <<IndexB, "c1">> \in inv[p].fetchTried

\* C10: lastModifiedListener throws to its caller if and only if DISCOVER fails.
C10_ThrowsIffDiscoverFails ==
    \A p \in DOMAIN inv :
        inv[p].pc \in {"returned", "threw"} =>
            (inv[p].pc = "threw" <=> inv[p].discoverFailed)

\* C10 as amended: lastModifiedListener never throws; it returns normally when
\* discovery succeeds and also when it fails, and then nothing was processed.
C10_NeverThrows ==
    \A p \in DOMAIN inv :
        /\ inv[p].pc # "threw"
        /\ (Resting(inv[p]) /\ inv[p].discoverFailed) =>
              inv[p].pc = "returned" /\ inv[p].readTried = {}

\* the listener has returned from a cycle whose discovery failed
C10_Witness ==
    \E p \in DOMAIN inv : inv[p].pc = "returned" /\ inv[p].discoverFailed


\* the transform of the iteration has run
Transformed(L) == L.pc = "publish" \/ (L.pc = "cfgDone" /\ L.ckpt = "ok")

\* the rows of the fetch of L with the given content, as a set of row numbers
RowsWith(L, content) == {L.rows[k].n : k \in {j \in 1..Len(L.rows) : L.rows[j].content = content}}

DocRows(L) == {L.documents[k].n : k \in 1..Len(L.documents)}

\* C11: a row whose transformation throws is left out of the batch and every
\* other row of the fetch with non-empty content has its document in the batch
\* and, when the publish succeeds, in the sink.
C11_FailingRowIsolated ==
    \A p \in DOMAIN inv :
        LET L == inv[p]
        IN  Transformed(L) =>
              /\ RowsWith(L, "throws") \cap DocRows(L) = {}
              /\ RowsWith(L, "text") \subseteq DocRows(L)
              /\ L.pub = "ok" =>
                    \A n \in RowsWith(L, "text") :
                        <<TenantIndex(Config(L)), Key(L), n>> \in sink

\* a batch was published from a fetch whose first row throws and whose second
\* row has content
C11_Witness ==
    \E p \in DOMAIN inv :
        /\ inv[p].pc = "cfgDone" /\ inv[p].pub = "ok"
        /\ Len(inv[p].rows) = 2
        /\ inv[p].rows[1].content = "throws"
        /\ inv[p].rows[2].content = "text"

\* C12: a row with empty processed content has no document in the batch, and
\* the checkpoint written by the fetch is still the change_time of the last
\* row returned, also when that row, or every row, was dropped.
C12_DroppedRowAdvancesWatermark ==
    \A p \in DOMAIN inv :
        LET L == inv[p]
        IN  Transformed(L) =>
              /\ RowsWith(L, "empty") \cap DocRows(L) = {}
              /\ \A n \in RowsWith(L, "empty") :
                    <<TenantIndex(Config(L)), Key(L), n>> \notin sink
              /\ Stored(Key(L)) = [kind |-> "iso", t |-> L.rows[Len(L.rows)].change_time]
              /\ (RowsWith(L, "text") = {} /\ L.pc = "cfgDone") => L.pub = "none"

\* every row of a fetch was dropped, no publish call was made and the
\* checkpoint is at the last row, whose content is empty
C12_Witness ==
    \E p \in DOMAIN inv :
        /\ inv[p].pc = "cfgDone" /\ inv[p].ckpt = "ok" /\ inv[p].pub = "none"
        /\ Len(inv[p].rows) = 2
        /\ inv[p].rows[2].content = "empty"
        /\ RowsWith(inv[p], "text") = {}
        /\ Stored(Key(inv[p])).t = inv[p].rows[2].change_time


\* C13: the output of the transformer is, in input order, one document per row
\* whose processed content is non-empty and whose processing did not fail, with
\* id the row_id as a string and action "upload" for INSERT and "mergeOrUpload"
\* for every other action_type.
C13_TransformOutput ==
    \A p \in DOMAIN inv :
        LET L == inv[p]
            kept == SelectSeq(L.rows, LAMBDA r : r.content = "text")
        IN  L.pc # "transform" =>
              /\ Len(L.documents) = Len(kept)
              /\ \A k \in 1..Len(kept) :
                    /\ L.documents[k].n = kept[k].n
                    /\ L.documents[k].id = (IF kept[k].row_id = 7 THEN "7" ELSE "42")
                    /\ L.documents[k].action =
                          (IF kept[k].action_type = "INSERT" THEN "upload" ELSE "mergeOrUpload")

\* a DELETE row and an INSERT row were transformed, with a failing row dropped
C13_Witness ==
    \E p \in DOMAIN inv :
        /\ inv[p].pc = "publish"
        /\ Len(inv[p].rows) = 2
        /\ inv[p].rows[1].action_type = "DELETE" /\ inv[p].rows[1].content = "text"
        /\ inv[p].rows[2].content = "throws"
        /\ Len(inv[p].documents) = 1
        /\ inv[p].documents[1].action = "mergeOrUpload"


\* C15: when the checkpoint write of a fetch fails, the stored watermark of the
\* config is the one the cycle read, and the next fetch of the config that
\* answers returns every row of the failed fetch again.
C15_NoLossOnCheckpointFailure ==
    \A p \in DOMAIN inv :
        LET L == inv[p]
        IN  /\ (L.pc = "cfgDone" /\ L.ckpt = "failed") =>
                  /\ Stored(Key(L)) = Config(L).source.updatedAt
                  /\ LastIndexedTime(Stored(Key(L))) = L.cursor
                  /\ owed[Key(L)] = {L.rows[k].n : k \in 1..Len(L.rows)}
            /\ (L.pc = "checkpoint" /\ L.ckpt = "none") =>
                  owed[Key(L)] \subseteq {L.rows[k].n : k \in 1..Len(L.rows)}
            /\ (L.pc = "cfgDone" /\ L.fetch = "ok" /\ L.rows = <<>>) =>
                  owed[Key(L)] = {}

\* a fetch has returned again the two rows of an earlier fetch whose checkpoint
\* write failed
C15_Witness ==
    \E p \in DOMAIN inv :
        /\ inv[p].pc = "checkpoint"
        /\ Cardinality(owed[Key(inv[p])]) = 2
        /\ Len(inv[p].rows) = 2


\* C16: an invocation whose discovery failed has returned at once: it read the
\* configs of no connection, started no fetch (no pool, no query), made no
\* publish call and wrote no checkpoint.
C16_DiscoverFailureAborts ==
    \A p \in DOMAIN inv :
        LET L == inv[p]
        IN  L.discoverFailed =>
              /\ L.pc = "returned"
              /\ L.indices = <<>> /\ L.readTried = {} /\ L.configsRead = {}
              /\ L.fetchTried = {} /\ L.pools = 0 /\ ~L.queried
              /\ L.pubCalls = 0 /\ L.pub = "none"
              /\ L.ckpt = "none"

\* discovery failed in an invocation that follows one which stored a watermark
\* and published, with connections in the catalog
C16_Witness ==
    \E p \in DOMAIN inv :
        /\ inv[p].pc = "returned" /\ inv[p].discoverFailed
        /\ Len(catalog) = 3
        /\ sink # {}
        /\ Stored(<<IndexA, "c1">>).kind = "iso"


\* C17: outside a fetch no session is checked out, and when the iteration of a
\* config whose fetch succeeded is over (the next config's iteration starts
\* from there, or the invocation returns), neither a session nor a connection
\* pool acquired for it is still held.
C17_ResourcesReleased ==
    \A p \in DOMAIN inv :
        LET L == inv[p]
        IN  /\ L.pc \notin {"query", "checkpoint"} => L.clients = 0
            /\ (L.pc = "cfgDone" /\ L.fetch = "ok") => L.pools = 0


C14_CursorOrEpoch ==
    \A p \in DOMAIN inv :
        LET L == inv[p]
            updatedAt == Config(L).source.updatedAt
        IN  L.queried =>
              L.cursor = IF updatedAt.kind = "iso" THEN updatedAt.t ELSE 0

\* C18: a stored document changes only in the checkpoint step of a fetch of the
\* config read from that index under that id, and only in its updatedAt,
\* whatever coid the config holds.
C18_CheckpointFrame ==
    [][\A i \in DOMAIN store : \A d \in DOMAIN store[i] :
         store'[i][d] # store[i][d] =>
            /\ store'[i][d] = [store[i][d] EXCEPT !.updatedAt = store'[i][d].updatedAt]
            /\ \E p \in DOMAIN inv :
                 inv[p].pc = "checkpoint" /\ IndexName(inv[p]) = i /\ Config(inv[p]).id = d]_vars

\* C20: with two invocations in flight and rows appended meanwhile, no step
\* replaces a stored updatedAt by an earlier one.
C20_OverlapMonotone ==
    [][\A key \in ConfigKeys :
         key[1] \in DOMAIN store =>
            LastIndexedTime(Stored(key)') >= LastIndexedTime(Stored(key))]_vars

====
